---- MODULE Spec2Model ----
(***************************************************************************)
(* Option<T>, Result<T, E> and wrapException of                            *)
(* poc-ts-option-and-result-type, as a state machine.                      *)
(*                                                                         *)
(* JavaScript objects live on heaps (sequences indexed by reference):      *)
(* OptionImpl instances in `options`, ResultImpl instances in `results`,   *)
(* Promises in `promises`.  Every JavaScript value is a record             *)
(* [t, n, s]: its type tag, its number (or heap reference) and its string. *)
(* String literals write ' where the source's messages have a backquote.   *)
(***************************************************************************)
EXTENDS Integers, Sequences, FiniteSets

VARIABLES options, results, optionOrigin, resultOrigin, last,
          promises, jobs, calls

vars == <<options, results, optionOrigin, resultOrigin, last,
          promises, jobs, calls>>

containerVars == <<options, results, optionOrigin, resultOrigin, last>>
adapterVars == <<promises, jobs, calls>>

(***************************************************************************)
(* Bounds of the model.                                                    *)
(***************************************************************************)
\* Option and Result instances allocated in one run of the container machine.
MaxObjs == 2
\* wrapException calls in one run of the adapter machine.
MaxCalls == 2

(***************************************************************************)
(* JavaScript values.                                                      *)
(***************************************************************************)
JS(t, n, s) == [t |-> t, n |-> n, s |-> s]

Undefined == JS("undefined", 0, "")
Null == JS("null", 0, "")
JBool(b) == JS("boolean", IF b THEN 1 ELSE 0, "")
JNum(n) == JS("number", n, "")
JStr(s) == JS("string", 0, s)
JSymbol(desc) == JS("symbol", 0, desc)
\* new Error(message), new TypeError(message): the tag is the class name.
JError(message) == JS("Error", 0, message)
JTypeError(message) == JS("TypeError", 0, message)
\* References to heap objects.
OptionRef(i) == JS("option", i, "")
ResultRef(i) == JS("result", i, "")
PromiseRef(i) == JS("promise", i, "")
\* An object with a then method that is not an instance of Promise.
Thenable == JS("thenable", 0, "")

\* How a call ends: it returns val, or it throws val.
Return(v) == [kind |-> "return", val |-> v]
Throw(v) == [kind |-> "throw", val |-> v]

\* The payloads the containers are built with: the falsy values, a truthy
\* number and a Symbol.
Payloads ==
    { Undefined, Null, JBool(FALSE), JNum(0), JStr(""), JNum(42), JSymbol("s") }

\* The fallbacks unwrapOr is called with.
Defaults == { Undefined, JNum(7) }

Digits == <<"0", "1", "2", "3", "4", "5", "6", "7", "8", "9">>

\* Number::toString of a non-negative integer.
RECURSIVE NumberToString(_)
NumberToString(n) ==
    IF n < 10 THEN Digits[n + 1]
    ELSE NumberToString(n \div 10) \o Digits[(n % 10) + 1]

\* ECMAScript ToString, as a template literal `${v}` applies it: a Symbol
\* cannot be converted and raises a TypeError.
ToString(v) ==
    CASE v.t = "undefined" -> Return(JStr("undefined"))
      [] v.t = "null" -> Return(JStr("null"))
      [] v.t = "boolean" -> Return(JStr(IF v.n = 1 THEN "true" ELSE "false"))
      [] v.t = "number" -> Return(JStr(NumberToString(v.n)))
      [] v.t = "string" -> Return(v)
      [] v.t = "symbol" ->
            Throw(JTypeError("Cannot convert a Symbol value to a string"))
      [] v.t \in {"Error", "TypeError"} ->
            Return(JStr(IF v.s = "" THEN v.t ELSE v.t \o ": " \o v.s))
      [] v.t = "promise" -> Return(JStr("[object Promise]"))
      [] OTHER -> Return(JStr("[object Object]"))

\* throw new Error(`${prefix}${value}`): the interpolation is evaluated
\* first, and what it throws replaces the Error.
ThrowErrorWith(prefix, value) ==
    LET str == ToString(value) IN
    IF str.kind = "throw" THEN str
    ELSE Throw(JError(prefix \o str.val.s))

(***************************************************************************)
(* OptionImpl.                                                             *)
(***************************************************************************)
\* private constructor(private value?: T)
OptionImpl_new(value) == [value |-> value]

Option_isSome(self) == self.value # Undefined

Option_isNone(self) == self.value = Undefined

Option_unwrap(self) ==
    IF Option_isSome(self) THEN Return(self.value)
    ELSE Throw(JError("called 'unwrap()' on a 'None' value"))

Option_unwrapOr(self, defaultValue) ==
    IF Option_isSome(self) THEN self.value ELSE defaultValue

\* static some(value): new OptionImpl(value)
Some(value) == OptionImpl_new(value)

\* static none(): new OptionImpl(), the value parameter left undefined.
OptionImpl_none == OptionImpl_new(Undefined)

\* export const None = OptionImpl.none(): one instance, the first on the heap.
None == 1

(***************************************************************************)
(* ResultImpl.                                                             *)
(***************************************************************************)
\* private constructor(private value: T | E, private isError: boolean)
ResultImpl_new(value, isError) == [value |-> value, isError |-> isError]

\* Mutant: presence decided by the payload, as OptionImpl does.
Result_isOk_bySentinel(self) == self.value # Undefined /\ ~self.isError

Result_isOk(self) == ~self.isError

Result_isErr(self) == self.isError

Result_unwrap(self) ==
    IF Result_isOk(self) THEN Return(self.value)
    ELSE ThrowErrorWith("called 'unwrap()' on an 'Err' value: ", self.value)

Result_unwrapOr(self, defaultValue) ==
    IF Result_isOk(self) THEN self.value ELSE defaultValue

Result_unwrapErr(self) ==
    IF Result_isErr(self) THEN Return(self.value)
    ELSE ThrowErrorWith("called 'unwrapErr()' on an 'Ok' value: ", self.value)

\* ok() and err(): a fresh Some(value), or the shared None instance.
Result_ok(self) ==
    IF Result_isOk(self) THEN [fresh |-> TRUE, inst |-> Some(self.value)]
    ELSE [fresh |-> FALSE, inst |-> OptionImpl_none]

Result_err(self) ==
    IF Result_isErr(self) THEN [fresh |-> TRUE, inst |-> Some(self.value)]
    ELSE [fresh |-> FALSE, inst |-> OptionImpl_none]

\* static ok(value), static err(error)
Ok(value) == ResultImpl_new(value, FALSE)

Err(error) == ResultImpl_new(error, TRUE)

(***************************************************************************)
(* The container machine: a program that builds Options and Results and    *)
(* calls their methods.  `last` is the latest call: the method, the        *)
(* receiver, the argument and how the call ended.  optionOrigin and        *)
(* resultOrigin record how each instance was constructed.                  *)
(***************************************************************************)
Call(op, self, arg, outcome) ==
    [op |-> op, self |-> self, arg |-> arg,
     kind |-> outcome.kind, val |-> outcome.val]

Origin(ctor, arg, from) == [ctor |-> ctor, arg |-> arg, from |-> from]

Allocated == (Len(options) - 1) + Len(results)

OptionRefs == DOMAIN options
ResultRefs == DOMAIN results

\* Some(value)
CallSome(value) ==
    /\ Allocated < MaxObjs
    /\ options' = Append(options, Some(value))
    /\ optionOrigin' = Append(optionOrigin, Origin("Some", value, 0))
    /\ last' = Call("Some", Undefined, value,
                    Return(OptionRef(Len(options) + 1)))
    /\ UNCHANGED <<results, resultOrigin, adapterVars>>

\* Ok(value)
CallOk(value) ==
    /\ Allocated < MaxObjs
    /\ results' = Append(results, Ok(value))
    /\ resultOrigin' = Append(resultOrigin, Origin("Ok", value, 0))
    /\ last' = Call("Ok", Undefined, value,
                    Return(ResultRef(Len(results) + 1)))
    /\ UNCHANGED <<options, optionOrigin, adapterVars>>

\* Err(error)
CallErr(error) ==
    /\ Allocated < MaxObjs
    /\ results' = Append(results, Err(error))
    /\ resultOrigin' = Append(resultOrigin, Origin("Err", error, 0))
    /\ last' = Call("Err", Undefined, error,
                    Return(ResultRef(Len(results) + 1)))
    /\ UNCHANGED <<options, optionOrigin, adapterVars>>

\* options[i].isSome()
CallOptionIsSome(i) ==
    /\ last' = Call("Option.isSome", OptionRef(i), Undefined,
                    Return(JBool(Option_isSome(options[i]))))
    /\ UNCHANGED <<options, results, optionOrigin, resultOrigin, adapterVars>>

\* options[i].isNone()
CallOptionIsNone(i) ==
    /\ last' = Call("Option.isNone", OptionRef(i), Undefined,
                    Return(JBool(Option_isNone(options[i]))))
    /\ UNCHANGED <<options, results, optionOrigin, resultOrigin, adapterVars>>

\* Mutant: unwrap() takes the value out of the instance.
CallOptionUnwrap_take(i) ==
    /\ last' = Call("Option.unwrap", OptionRef(i), Undefined,
                    Option_unwrap(options[i]))
    /\ options' = [options EXCEPT ![i] = OptionImpl_new(Undefined)]
    /\ UNCHANGED <<results, optionOrigin, resultOrigin, adapterVars>>

\* options[i].unwrap()
CallOptionUnwrap(i) ==
    /\ last' = Call("Option.unwrap", OptionRef(i), Undefined,
                    Option_unwrap(options[i]))
    /\ UNCHANGED <<options, results, optionOrigin, resultOrigin, adapterVars>>

\* options[i].unwrapOr(defaultValue)
CallOptionUnwrapOr(i, defaultValue) ==
    /\ last' = Call("Option.unwrapOr", OptionRef(i), defaultValue,
                    Return(Option_unwrapOr(options[i], defaultValue)))
    /\ UNCHANGED <<options, results, optionOrigin, resultOrigin, adapterVars>>

\* results[i].isOk()
CallResultIsOk(i) ==
    /\ last' = Call("Result.isOk", ResultRef(i), Undefined,
                    Return(JBool(Result_isOk(results[i]))))
    /\ UNCHANGED <<options, results, optionOrigin, resultOrigin, adapterVars>>

\* results[i].isErr()
CallResultIsErr(i) ==
    /\ last' = Call("Result.isErr", ResultRef(i), Undefined,
                    Return(JBool(Result_isErr(results[i]))))
    /\ UNCHANGED <<options, results, optionOrigin, resultOrigin, adapterVars>>

\* results[i].unwrap()
CallResultUnwrap(i) ==
    /\ last' = Call("Result.unwrap", ResultRef(i), Undefined,
                    Result_unwrap(results[i]))
    /\ UNCHANGED <<options, results, optionOrigin, resultOrigin, adapterVars>>

\* results[i].unwrapOr(defaultValue)
CallResultUnwrapOr(i, defaultValue) ==
    /\ last' = Call("Result.unwrapOr", ResultRef(i), defaultValue,
                    Return(Result_unwrapOr(results[i], defaultValue)))
    /\ UNCHANGED <<options, results, optionOrigin, resultOrigin, adapterVars>>

\* results[i].unwrapErr()
CallResultUnwrapErr(i) ==
    /\ last' = Call("Result.unwrapErr", ResultRef(i), Undefined,
                    Result_unwrapErr(results[i]))
    /\ UNCHANGED <<options, results, optionOrigin, resultOrigin, adapterVars>>

\* A projection's Option: a fresh instance is put on the heap and returned,
\* the shared None is returned as it is.
Project(op, i, proj) ==
    /\ proj.fresh => Allocated < MaxObjs
    /\ options' = IF proj.fresh THEN Append(options, proj.inst) ELSE options
    /\ optionOrigin' =
          IF proj.fresh
          THEN Append(optionOrigin, Origin(op, results[i].value, i))
          ELSE optionOrigin
    /\ last' = Call(op, ResultRef(i), Undefined,
                    Return(OptionRef(IF proj.fresh THEN Len(options) + 1
                                     ELSE None)))
    /\ UNCHANGED <<results, resultOrigin, adapterVars>>

\* results[i].ok()
CallResultOk(i) == Project("Result.ok", i, Result_ok(results[i]))

\* results[i].err()
CallResultErr(i) == Project("Result.err", i, Result_err(results[i]))

Init ==
    /\ options = <<OptionImpl_none>>
    /\ optionOrigin = <<Origin("none", Undefined, 0)>>
    /\ results = <<>>
    /\ resultOrigin = <<>>
    /\ last = Call("load", Undefined, Undefined, Return(Undefined))
    /\ promises = <<>>
    /\ jobs = <<>>
    /\ calls = <<>>

Next ==
    \/ \E v \in Payloads : CallSome(v)
    \/ \E v \in Payloads : CallOk(v)
    \/ \E e \in Payloads : CallErr(e)
    \/ \E i \in OptionRefs : CallOptionIsSome(i)
    \/ \E i \in OptionRefs : CallOptionIsNone(i)
    \/ \E i \in OptionRefs : CallOptionUnwrap(i)
    \/ \E i \in OptionRefs, d \in Defaults : CallOptionUnwrapOr(i, d)
    \/ \E i \in ResultRefs : CallResultIsOk(i)
    \/ \E i \in ResultRefs : CallResultIsErr(i)
    \/ \E i \in ResultRefs : CallResultUnwrap(i)
    \/ \E i \in ResultRefs, d \in Defaults : CallResultUnwrapOr(i, d)
    \/ \E i \in ResultRefs : CallResultUnwrapErr(i)
    \/ \E i \in ResultRefs : CallResultOk(i)
    \/ \E i \in ResultRefs : CallResultErr(i)

Spec == Init /\ [][Next]_vars

(***************************************************************************)
(* The adapter machine: wrapException over callbacks that return, throw,   *)
(* or return a Promise, with the Promise reactions the wrapper attaches    *)
(* run from the microtask queue `jobs`.                                    *)
(***************************************************************************)
\* What callbacks return, throw, resolve with and reject with.
AdapterValues == { Undefined, JStr("boom"), JSymbol("s") }

\* The Error a callback throws when it unwraps the None instance or an Err.
ContractErrors ==
    { Option_unwrap(OptionImpl_none).val, Result_unwrap(Err(JStr("boom"))).val }

\* A callback: what one invocation of it does.  An async callback returns a
\* new Promise that is pending, or already fulfilled or rejected with val.
Callback(does, state, val) == [does |-> does, state |-> state, val |-> val]

Callbacks ==
    {Callback("return", "", v) : v \in AdapterValues \cup {Thenable}}
    \cup {Callback("throw", "", v) : v \in AdapterValues \cup ContractErrors}
    \cup {Callback("async", "pending", Undefined)}
    \cup {Callback("async", st, v) :
             st \in {"fulfilled", "rejected"}, v \in AdapterValues}

\* A Promise: its state and value, the reactions waiting for it, how many
\* times it was settled, and the call whose callback created it (0: none).
NewPromise(state, value, owner) ==
    [state |-> state, value |-> value, reactions |-> <<>>,
     settles |-> IF state = "pending" THEN 0 ELSE 1, owner |-> owner]

Reaction(target, onFulfilled, onRejected, call) ==
    [target |-> target, onFulfilled |-> onFulfilled,
     onRejected |-> onRejected, call |-> call]

Job(reaction, type, arg) == [reaction |-> reaction, type |-> type, arg |-> arg]

\* A heap of Promises with the microtask queue: what then() and settling act on.
Runtime(ps, js) == [promises |-> ps, jobs |-> js]

\* p.then(onFulfilled, onRejected): a new Promise; the reaction waits on a
\* pending p and is queued at once for a settled one.
PromiseThen(rt, p, onFulfilled, onRejected, call) ==
    LET q == Len(rt.promises) + 1
        reaction == Reaction(q, onFulfilled, onRejected, call)
        heap == Append(rt.promises, NewPromise("pending", Undefined, 0))
        src == rt.promises[p]
    IN  IF src.state = "pending"
        THEN Runtime([heap EXCEPT ![p].reactions = Append(@, reaction)], rt.jobs)
        ELSE Runtime(heap, Append(rt.jobs, Job(reaction, src.state, src.value)))

\* Fulfil or reject promise p: its state is set once and its reactions are
\* queued in the order they were attached.
SettlePromise(rt, p, state, value) ==
    LET src == rt.promises[p]
        queued == [k \in DOMAIN src.reactions |->
                      Job(src.reactions[k], state, value)]
    IN  IF src.state # "pending" THEN rt
        ELSE Runtime([rt.promises EXCEPT ![p] =
                         [@ EXCEPT !.state = state, !.value = value,
                                   !.reactions = <<>>, !.settles = @ + 1]],
                     rt.jobs \o queued)

\* One invocation of the callback: its outcome, the Promise it created (if
\* any) and the count of invocations so far.
Invoke(cb, call, heap, invoked) ==
    CASE cb.does = "return" ->
            [out |-> Return(cb.val), promises |-> heap, invoked |-> invoked + 1]
      [] cb.does = "throw" ->
            [out |-> Throw(cb.val), promises |-> heap, invoked |-> invoked + 1]
      [] cb.does = "async" ->
            [out |-> Return(PromiseRef(Len(heap) + 1)),
             promises |-> Append(heap, NewPromise(cb.state, cb.val, call)),
             invoked |-> invoked + 1]

\* Mutant: a callback that threw is invoked a second time.
TryCallback_retry(cb, call, heap) ==
    LET first == Invoke(cb, call, heap, 0) IN
    IF first.out.kind = "throw"
    THEN Invoke(cb, call, first.promises, first.invoked)
    ELSE first

\* try { const result = callback();
TryCallback(cb, call, heap) == Invoke(cb, call, heap, 0)

\* Mutant: the callback's result is never taken for a Promise.
InstanceofPromise_never(result) == FALSE

\* result instanceof Promise
InstanceofPromise(result) == result.t = "promise"

\* Mutant: the success continuation builds an Err.
ThenHandler_asErr(value) == Err(value)

\* .then((value) => Ok<T>(value))
ThenHandler(value) == Ok(value)

\* .catch((error) => Err<E>(error as E))
CatchHandler(error) == Err(error)

\* return Ok<T>(result);
ReturnOk(result) == Ok(result)

\* Mutant: the thrown value is converted to its message string.
CatchClause_coerced(error) ==
    Err(IF ToString(error).kind = "return" THEN ToString(error).val ELSE error)

\* } catch (error) { return Err<E>(error as E); }
CatchClause(error) == Err(error)

\* One wrapException call and what came of it.
CallRecord(cb, invoked, ret, source, made) ==
    [cb |-> cb, invoked |-> invoked, ret |-> ret, source |-> source,
     made |-> made, okRuns |-> 0, errRuns |-> 0]

OriginOf(inst, call) ==
    Origin(IF inst.isError THEN "Err" ELSE "Ok", inst.value, call)

\* wrapper(callback), which wrapException(callback) returns the result of.
Wrapper(cb) ==
    LET c == Len(calls) + 1
        try == TryCallback(cb, c, promises)
        out == try.out
    IN  /\ Len(calls) < MaxCalls
        /\ IF out.kind = "return" /\ InstanceofPromise(out.val)
           THEN LET p == out.val.n
                    rt1 == PromiseThen(Runtime(try.promises, jobs),
                                       p, "Ok", "none", c)
                    q1 == Len(rt1.promises)
                    rt2 == PromiseThen(rt1, q1, "none", "Err", c)
                    q2 == Len(rt2.promises)
                IN  /\ promises' = rt2.promises
                    /\ jobs' = rt2.jobs
                    /\ calls' = Append(calls,
                          CallRecord(cb, try.invoked,
                                     Return(PromiseRef(q2)), p, 0))
                    /\ UNCHANGED <<results, resultOrigin>>
           ELSE LET inst == IF out.kind = "throw" THEN CatchClause(out.val)
                            ELSE ReturnOk(out.val)
                IN  /\ results' = Append(results, inst)
                    /\ resultOrigin' = Append(resultOrigin, OriginOf(inst, c))
                    /\ calls' = Append(calls,
                          CallRecord(cb, try.invoked,
                                     Return(ResultRef(Len(results) + 1)), 0, 1))
                    /\ promises' = try.promises
                    /\ UNCHANGED jobs
        /\ UNCHANGED <<options, optionOrigin, last>>

\* export default function wrapException(callback)
WrapException(cb) == Wrapper(cb)

\* The asynchronous operation behind a callback's Promise calls resolve or
\* reject; on a Promise that is already settled the call has no effect.
SettleCallbackPromise(p, state, value) ==
    /\ promises[p].owner # 0
    /\ LET rt == SettlePromise(Runtime(promises, jobs), p, state, value)
       IN  /\ promises' = rt.promises
           /\ jobs' = rt.jobs
    /\ UNCHANGED <<containerVars, calls>>

\* The first microtask runs: the reaction's handler for the way the Promise
\* settled is called with its value, and what it returns fulfils the derived
\* Promise; without a handler the settlement passes through.
RunJob ==
    /\ jobs # <<>>
    /\ LET job == Head(jobs)
           r == job.reaction
           handler == IF job.type = "fulfilled" THEN r.onFulfilled
                      ELSE r.onRejected
           rt == Runtime(promises, Tail(jobs))
       IN  IF handler = "none"
           THEN LET rt2 == SettlePromise(rt, r.target, job.type, job.arg)
                IN  /\ promises' = rt2.promises
                    /\ jobs' = rt2.jobs
                    /\ UNCHANGED <<results, resultOrigin, calls>>
           ELSE LET inst == IF handler = "Ok" THEN ThenHandler(job.arg)
                            ELSE CatchHandler(job.arg)
                    ref == ResultRef(Len(results) + 1)
                    rt2 == SettlePromise(rt, r.target, "fulfilled", ref)
                IN  /\ results' = Append(results, inst)
                    /\ resultOrigin' =
                          Append(resultOrigin, OriginOf(inst, r.call))
                    /\ promises' = rt2.promises
                    /\ jobs' = rt2.jobs
                    /\ calls' = [calls EXCEPT ![r.call] =
                          [@ EXCEPT !.made = @ + 1,
                                    !.okRuns = @ + (IF handler = "Ok" THEN 1 ELSE 0),
                                    !.errRuns = @ + (IF handler = "Err" THEN 1 ELSE 0)]]
    /\ UNCHANGED <<options, optionOrigin, last>>

AdapterNext ==
    \/ \E cb \in Callbacks : WrapException(cb)
    \/ \E p \in DOMAIN promises, st \in {"fulfilled", "rejected"},
          v \in AdapterValues : SettleCallbackPromise(p, st, v)
    \/ RunJob

AdapterSpec == Init /\ [][AdapterNext]_vars

(***************************************************************************)
(* Claims about the containers, checked under Spec.                        *)
(***************************************************************************)
LastOn(op) == last.op = op
LastOption == options[last.self.n]
LastOptionOrigin == optionOrigin[last.self.n]
LastResult == results[last.self.n]
LastResultOrigin == resultOrigin[last.self.n]
IsAnError(v) == v.t \in {"Error", "TypeError"}

\* C1: for every v, Some(v).isSome() is true, Some(v).isNone() is false and
\* Some(v).unwrap() returns v without raising; None.isSome() is false,
\* None.isNone() is true and None.unwrap() raises an Error.
C1_SomeIsPresentNoneIsAbsent ==
    /\ (LastOn("Option.isSome") /\ LastOptionOrigin.ctor = "Some")
          => last.val = JBool(TRUE)
    /\ (LastOn("Option.isNone") /\ LastOptionOrigin.ctor = "Some")
          => last.val = JBool(FALSE)
    /\ (LastOn("Option.unwrap") /\ LastOptionOrigin.ctor = "Some")
          => (last.kind = "return" /\ last.val = LastOptionOrigin.arg)
    /\ (LastOn("Option.isSome") /\ last.self = OptionRef(None))
          => last.val = JBool(FALSE)
    /\ (LastOn("Option.isNone") /\ last.self = OptionRef(None))
          => last.val = JBool(TRUE)
    /\ (LastOn("Option.unwrap") /\ last.self = OptionRef(None))
          => (last.kind = "throw" /\ IsAnError(last.val))

\* C2: for every Result r, r.ok().isSome() holds iff r.isOk(), and then
\* r.ok().unwrap() is the payload; r.err().isSome() holds iff r.isErr(), and
\* then r.err().unwrap() is the payload; the other projection is None.
C2_ProjectionsFollowTheVariant ==
    /\ LastOn("Result.ok") =>
          LET o == options[last.val.n] IN
          /\ Option_isSome(o) <=> Result_isOk(LastResult)
          /\ Result_isOk(LastResult)
                => Option_unwrap(o) = Return(LastResultOrigin.arg)
          /\ Result_isErr(LastResult) => last.val = OptionRef(None)
    /\ LastOn("Result.err") =>
          LET o == options[last.val.n] IN
          /\ Option_isSome(o) <=> Result_isErr(LastResult)
          /\ Result_isErr(LastResult)
                => Option_unwrap(o) = Return(LastResultOrigin.arg)
          /\ Result_isOk(LastResult) => last.val = OptionRef(None)

\* C6: r.unwrap() raises an Error iff r.isErr() and r.unwrapErr() raises an
\* Error iff r.isOk(); the Error's message is the method's prefix followed
\* by the stringified payload of the other variant, and the instance is as
\* it was constructed after the raise.
C6_UnwrapRaisesWithThePayload ==
    /\ LastOn("Result.unwrap") =>
          /\ (last.kind = "throw") <=> (LastResultOrigin.ctor = "Err")
          /\ last.kind = "throw" =>
                /\ IsAnError(last.val)
                /\ ToString(LastResultOrigin.arg).kind = "return"
                /\ last.val.s = "called 'unwrap()' on an 'Err' value: "
                                   \o ToString(LastResultOrigin.arg).val.s
                /\ LastResult = Err(LastResultOrigin.arg)
    /\ LastOn("Result.unwrapErr") =>
          /\ (last.kind = "throw") <=> (LastResultOrigin.ctor = "Ok")
          /\ last.kind = "throw" =>
                /\ IsAnError(last.val)
                /\ ToString(LastResultOrigin.arg).kind = "return"
                /\ last.val.s = "called 'unwrapErr()' on an 'Ok' value: "
                                   \o ToString(LastResultOrigin.arg).val.s
                /\ LastResult = Ok(LastResultOrigin.arg)

\* C7: unwrapOr never raises and selects by variant only: Some(v).unwrapOr(d)
\* is v and None.unwrapOr(d) is d; Ok(v).unwrapOr(d) is v and
\* Err(e).unwrapOr(d) is d.
C7_UnwrapOrSelectsByVariant ==
    /\ LastOn("Option.unwrapOr") =>
          /\ last.kind = "return"
          /\ LastOptionOrigin.ctor = "Some" => last.val = LastOptionOrigin.arg
          /\ last.self = OptionRef(None) => last.val = last.arg
    /\ LastOn("Result.unwrapOr") =>
          /\ last.kind = "return"
          /\ LastResultOrigin.ctor = "Ok" => last.val = LastResultOrigin.arg
          /\ LastResultOrigin.ctor = "Err" => last.val = last.arg

\* C8: for every Result, whatever its payload, exactly one of isOk() and
\* isErr() is true; Ok(v).isOk() is true and Ok(v).unwrap() is v;
\* Err(e).isErr() is true, Err(e).unwrapErr() is e and Err(e).ok() is None.
C8_DiscriminantAgreesWithPayload ==
    /\ \A i \in ResultRefs :
          LET r == results[i]
              o == resultOrigin[i]
          IN  /\ Result_isOk(r) # Result_isErr(r)
              /\ o.ctor = "Ok" =>
                    /\ Result_isOk(r)
                    /\ Result_unwrap(r) = Return(o.arg)
              /\ o.ctor = "Err" =>
                    /\ Result_isErr(r)
                    /\ Result_unwrapErr(r) = Return(o.arg)
                    /\ ~Result_ok(r).fresh
                    /\ Option_isNone(Result_ok(r).inst)
    /\ LastOn("Result.isOk")
          => last.val = JBool(LastResultOrigin.ctor = "Ok")
    /\ LastOn("Result.isErr")
          => last.val = JBool(LastResultOrigin.ctor = "Err")
    /\ (LastOn("Result.unwrap") /\ LastResultOrigin.ctor = "Ok")
          => (last.kind = "return" /\ last.val = LastResultOrigin.arg)
    /\ (LastOn("Result.unwrapErr") /\ LastResultOrigin.ctor = "Err")
          => (last.kind = "return" /\ last.val = LastResultOrigin.arg)
    /\ (LastOn("Result.ok") /\ LastResultOrigin.ctor = "Err")
          => (last.val = OptionRef(None) /\ Option_isNone(options[None]))

\* Err(undefined).ok() has returned None.
C8_Witness ==
    /\ LastOn("Result.ok")
    /\ LastResultOrigin = Origin("Err", Undefined, 0)
    /\ last.val = OptionRef(None)
    /\ \E i \in ResultRefs : resultOrigin[i] = Origin("Ok", Undefined, 0)

\* Every instance is what its constructor built.
C9_Constructed ==
    /\ \A i \in OptionRefs : options[i] = OptionImpl_new(optionOrigin[i].arg)
    /\ \A i \in ResultRefs :
          results[i] = ResultImpl_new(resultOrigin[i].arg,
                                      resultOrigin[i].ctor = "Err")

\* A step keeps every existing instance, and with it what isSome(), isOk(),
\* ok() and err() answer on it.
C9_StepKeepsInstances ==
    /\ \A i \in OptionRefs :
          /\ i \in DOMAIN options'
          /\ options'[i] = options[i]
          /\ Option_isSome(options'[i]) = Option_isSome(options[i])
    /\ \A i \in ResultRefs :
          /\ i \in DOMAIN results'
          /\ results'[i] = results[i]
          /\ Result_isOk(results'[i]) = Result_isOk(results[i])
          /\ Result_ok(results'[i]) = Result_ok(results[i])
          /\ Result_err(results'[i]) = Result_err(results[i])

\* C9: no call changes an instance: every Option and Result keeps the payload
\* and discriminant it was constructed with, through every call (those that
\* raise, and those on the shared None, included), so isSome(), isOk(), ok()
\* and err() answer the same on an instance before and after any call.
C9_NoCallMutates == []C9_Constructed /\ [][C9_StepKeepsInstances]_vars

\* unwrap() has raised on the shared None while an Err and the Some its
\* err() projected are on the heap.
C9_Witness ==
    /\ LastOn("Option.unwrap")
    /\ last.self = OptionRef(None)
    /\ last.kind = "throw"
    /\ \E i \in OptionRefs : optionOrigin[i].ctor = "Result.err"

(***************************************************************************)
(* Claims about wrapException, checked under AdapterSpec.                  *)
(***************************************************************************)
CallIds == DOMAIN calls
Deferred(c) == calls[c].source # 0
\* The Promise the callback of call c returned, and the one the call returned.
SourceOf(c) == promises[calls[c].source]
OuterOf(c) == promises[calls[c].ret.val.n]
Settled(p) == p.state # "pending"
Quiescent == jobs = <<>>
\* The Result a wrapException call returned, or its Promise was fulfilled with.
IsResultRef(v) == v.t = "result" /\ v.n \in ResultRefs
IsErrOf(v, e) ==
    /\ IsResultRef(v)
    /\ Result_isErr(results[v.n])
    /\ Result_unwrapErr(results[v.n]) = Return(e)
IsOkOf(v, x) ==
    /\ IsResultRef(v)
    /\ Result_isOk(results[v.n])
    /\ Result_unwrap(results[v.n]) = Return(x)

\* C3: whatever the callback does, wrapException(callback) does not throw and
\* the Promise it returns is never rejected; a thrown value e gives an Err
\* whose unwrapErr() is e itself, and a rejection with e fulfils the returned
\* Promise with such an Err once the queued reactions have run.
C3_FailuresEndAsErr ==
    \A c \in CallIds :
        /\ calls[c].ret.kind = "return"
        /\ calls[c].cb.does = "throw"
              => IsErrOf(calls[c].ret.val, calls[c].cb.val)
        /\ Deferred(c) =>
              /\ OuterOf(c).state # "rejected"
              /\ (SourceOf(c).state = "rejected" /\ Settled(OuterOf(c)))
                    => IsErrOf(OuterOf(c).value, SourceOf(c).value)
              /\ (SourceOf(c).state = "rejected" /\ Quiescent)
                    => Settled(OuterOf(c))

\* One callback threw the Error of None.unwrap(); another's Promise was
\* rejected with a Symbol and the returned Promise holds the Err.
C3_Witness ==
    /\ \E c \in CallIds :
          /\ calls[c].cb = Callback("throw", "", Option_unwrap(OptionImpl_none).val)
          /\ IsErrOf(calls[c].ret.val, Option_unwrap(OptionImpl_none).val)
    /\ \E c \in CallIds :
          /\ Deferred(c)
          /\ calls[c].cb.state = "pending"
          /\ SourceOf(c).state = "rejected"
          /\ IsErrOf(OuterOf(c).value, JSymbol("s"))

\* C4: for a callback that returned a Promise p, the Ok continuation and the
\* Err continuation together run at most once, and exactly once when p is
\* settled and the microtask queue has drained: p fulfilled with v fulfils the
\* returned Promise with Ok(v) and the Err continuation has not run; p
\* rejected with e fulfils it with Err(e) and the Ok continuation has not run;
\* the returned Promise is settled at most once.
C4_ExactlyOneContinuation ==
    \A c \in CallIds : Deferred(c) =>
        LET src == SourceOf(c)
            outer == OuterOf(c)
            ran == calls[c].okRuns + calls[c].errRuns
        IN  /\ ran <= 1
            /\ outer.settles <= 1
            /\ Settled(outer) => ran = 1
            /\ src.state = "pending" => ran = 0
            /\ src.state = "fulfilled" =>
                  /\ calls[c].errRuns = 0
                  /\ Settled(outer) =>
                        (outer.state = "fulfilled" /\ IsOkOf(outer.value, src.value))
            /\ src.state = "rejected" =>
                  /\ calls[c].okRuns = 0
                  /\ Settled(outer) =>
                        (outer.state = "fulfilled" /\ IsErrOf(outer.value, src.value))
            /\ (Settled(src) /\ Quiescent) => (ran = 1 /\ Settled(outer))

\* Two calls are done: one Promise resolved and only the Ok continuation ran,
\* the other was rejected and only the Err continuation ran.
C4_Witness ==
    /\ Quiescent
    /\ \E c \in CallIds :
          /\ Deferred(c)
          /\ SourceOf(c).state = "fulfilled"
          /\ calls[c].okRuns = 1 /\ calls[c].errRuns = 0
          /\ IsOkOf(OuterOf(c).value, SourceOf(c).value)
    /\ \E c \in CallIds :
          /\ Deferred(c)
          /\ SourceOf(c).state = "rejected"
          /\ calls[c].okRuns = 0 /\ calls[c].errRuns = 1
          /\ IsErrOf(OuterOf(c).value, SourceOf(c).value)

\* What the callback of call c produced is an asynchronous handle: a Promise,
\* or any other object with a then method.
ProducedHandle(c) == calls[c].cb.does = "async" \/ calls[c].cb.val = Thenable
ReturnedResult(c) == IsResultRef(calls[c].ret.val)
ReturnedPromise(c) ==
    calls[c].ret.val.t = "promise" /\ calls[c].ret.val.n \in DOMAIN promises

\* C5 as stated: a callback that returns a plain value or throws yields a
\* Result at once; a callback whose invocation produces an asynchronous
\* handle by any means yields a Promise of a Result, never an immediate Ok
\* around the handle.
C5_AnyHandleIsDeferred ==
    \A c \in CallIds :
        /\ ~ProducedHandle(c) => ReturnedResult(c)
        /\ ProducedHandle(c) => (ReturnedPromise(c) /\ ~ReturnedResult(c))

\* C5 as amended: the choice is made by result instanceof Promise.  A
\* callback that returns a Promise, pending or already settled, yields a
\* Promise of a Result; one that throws or returns anything else yields a
\* Result at once, and a returned thenable that is no Promise comes back
\* inside an immediate Ok.
C5_PromiseInstanceIsDeferred ==
    \A c \in CallIds :
        /\ calls[c].cb.does = "async" =>
              /\ ReturnedPromise(c)
              /\ Deferred(c)
              /\ Settled(OuterOf(c)) => IsResultRef(OuterOf(c).value)
        /\ calls[c].cb.does = "return" =>
              IsOkOf(calls[c].ret.val, calls[c].cb.val)
        /\ calls[c].cb.does = "throw" =>
              IsErrOf(calls[c].ret.val, calls[c].cb.val)
        /\ calls[c].cb.does # "async" => ~Deferred(c)

\* One callback returned an already fulfilled Promise and got a Promise back;
\* another returned a thenable and got Ok(thenable) at once.
C5_Witness ==
    /\ \E c \in CallIds :
          /\ calls[c].cb.does = "async"
          /\ calls[c].cb.state = "fulfilled"
          /\ ReturnedPromise(c)
    /\ \E c \in CallIds :
          /\ calls[c].cb = Callback("return", "", Thenable)
          /\ IsOkOf(calls[c].ret.val, Thenable)

\* C10: each wrapException call invokes its callback exactly once on every
\* path, a failed callback is not invoked again, and the call reports one
\* outcome: one Result, or one Promise that is fulfilled once, with the one
\* Result made for the call.
C10_OneInvocationOneOutcome ==
    /\ \A c \in CallIds :
          /\ calls[c].invoked = 1
          /\ calls[c].ret.kind = "return"
          /\ calls[c].made <= 1
          /\ Cardinality({i \in ResultRefs : resultOrigin[i].from = c})
                = calls[c].made
          /\ Cardinality({p \in DOMAIN promises : promises[p].owner = c})
                = (IF calls[c].cb.does = "async" THEN 1 ELSE 0)
          /\ ReturnedResult(c) \/ ReturnedPromise(c)
          /\ ReturnedResult(c) =>
                (calls[c].made = 1 /\ resultOrigin[calls[c].ret.val.n].from = c)
          /\ ReturnedPromise(c) =>
                /\ OuterOf(c).settles <= 1
                /\ Settled(OuterOf(c)) =>
                      /\ calls[c].made = 1
                      /\ IsResultRef(OuterOf(c).value)
                      /\ resultOrigin[OuterOf(c).value.n].from = c
    /\ Len(results) <= Len(calls)

\* A callback that threw and a callback whose Promise was rejected were each
\* invoked once and each call has its one Err.
C10_Witness ==
    /\ Quiescent
    /\ \E c \in CallIds :
          /\ calls[c].cb.does = "throw"
          /\ calls[c].invoked = 1
          /\ calls[c].made = 1
    /\ \E c \in CallIds :
          /\ calls[c].cb = Callback("async", "rejected", JStr("boom"))
          /\ calls[c].invoked = 1
          /\ calls[c].made = 1
          /\ Settled(OuterOf(c))

====
